---------------------------- MODULE Spec2Model ----------------------------
(***************************************************************************)
(* Model of eve_lp_optimizer.py: the run of `main` (category validation,   *)
(* sequential quote fetch, analyze_items, optimize_purchases, the two      *)
(* allocation strategies, report/output) as a state machine.               *)
(*                                                                         *)
(* Numbers.  Python floats are modelled exactly: a price and an integer    *)
(* day count are integers, a cargo volume is an integer count of a fixed   *)
(* volume unit, and every quotient the code forms (daily volume, ISK/LP,   *)
(* LP per m3, the sort key) is a rational <<n, d>> with d > 0 in lowest    *)
(* terms.  MarketData.available_volume is written by the code and never    *)
(* read; the model does not carry it.                                      *)
(***************************************************************************)
EXTENDS Integers, Sequences, FiniteSets, TLC

(***************************************************************************)
(* Bounds of the model                                                     *)
(***************************************************************************)
MaxLP == 4              \* available LP is drawn from 1..MaxLP
MaxCargo == 4           \* cargo capacity is drawn from 1..MaxCargo
MaxItems == 2           \* longest list handed to optimize_purchases
MaxLpCost == 2          \* lp_cost of a drawn store item
MaxUnits == 3           \* units_per_purchase of a drawn store item
MaxVolPerUnit == 1      \* volume_per_unit of a drawn store item (0 allowed)
MaxPrice == 2           \* highest unit price a market quotes
MaxDailyVolume == 2     \* highest daily traded volume of a good
MaxDays == 2            \* max_days_to_sell is drawn from 1..MaxDays
MaxBatchDays == 2       \* batch_size_days is drawn from 1..MaxBatchDays
MaxMinLiquidity == 1    \* min_liquidity is drawn from 1..MaxMinLiquidity
MaxDensityWeight == 1   \* lp_density_weight is drawn from 0..MaxDensityWeight
MaxPages == 2           \* most order-book pages a market serves
MaxHistory == 1         \* most days of trade history a market serves

(***************************************************************************)
(* Program constants                                                       *)
(***************************************************************************)
HISTORY_WINDOW == 30    \* history[-30:]

\* Python None; a record, so that it compares with any MarketData
None == [none |-> TRUE]

(***************************************************************************)
(* Exact arithmetic standing for the float operations of the code          *)
(***************************************************************************)
RECURSIVE GCD(_, _)
GCD(a, b) == IF b = 0 THEN a ELSE GCD(b, a % b)

Abs(x) == IF x < 0 THEN -x ELSE x

\* the quotient n / d (d > 0) in lowest terms
Rat(n, d) ==
    LET g == GCD(Abs(n), d)
    IN  IF n = 0 THEN <<0, 1>> ELSE <<n \div g, d \div g>>

RInt(n) == <<n, 1>>
RMul(a, b) == Rat(a[1] * b[1], a[2] * b[2])
RAdd(a, b) == Rat(a[1] * b[2] + b[1] * a[2], a[2] * b[2])
\* a / b for b > 0
RDiv(a, b) == Rat(a[1] * b[2], a[2] * b[1])
RLt(a, b) == a[1] * b[2] < b[1] * a[2]
RLe(a, b) == a[1] * b[2] <= b[1] * a[2]
RIsPos(a) == a[1] > 0
\* int(x) for x >= 0
RTrunc(a) == a[1] \div a[2]

RECURSIVE RPow(_, _)
RPow(a, w) == IF w = 0 THEN RInt(1) ELSE RMul(a, RPow(a, w - 1))

Min(S) == CHOOSE x \in S : \A y \in S : x <= y
Max(S) == CHOOSE x \in S : \A y \in S : x >= y

RECURSIVE SumSeq(_)
SumSeq(s) == IF s = <<>> THEN 0 ELSE Head(s) + SumSeq(Tail(s))


(***************************************************************************)
(* Data model                                                              *)
(***************************************************************************)
\* LPStoreItem.volume_per_purchase
volume_per_purchase(item) == item.volume_per_unit * item.units_per_purchase

LPStoreItem(name, ftid, btid, lp, isk, units, vol, cat) ==
    [name |-> name, faction_type_id |-> ftid, base_type_id |-> btid,
     lp_cost |-> lp, isk_cost |-> isk, units_per_purchase |-> units,
     volume_per_unit |-> vol, category |-> cat]

\* The static catalog, abridged to one entry of each of two categories, with
\* the costs, lot sizes and volumes scaled down to the bounds above.
LP_STORE_ITEMS ==
    << LPStoreItem("Republic Fleet EMP S", 21898, 185, 1, 1, 2, 1, "ammo_s"),
       LPStoreItem("Republic Fleet Warrior", 31888, 2486, 2, 1, 1, 1, "drone_light") >>

\* Sample market data (price_per_unit, daily_volume), scaled likewise
SAMPLE_BASE_PRICES == (185 :> <<1, 8>>) @@ (2486 :> <<1, 8>>)

SAMPLE_FACTION_PRICES == (21898 :> <<2, 4>>) @@ (31888 :> <<3, 1>>)

valid_categories == {"ammo_s", "ammo_m", "ammo_l", "drone_light", "drone_medium"}

MarketData(type_id, price, daily_volume) ==
    [type_id |-> type_id, price |-> price, daily_volume |-> daily_volume]

(***************************************************************************)
(* ESIClient                                                               *)
(***************************************************************************)
\* get_market_data with use_sample set
SampleMarketData(type_id, is_base_item) ==
    LET sample_dict == IF is_base_item THEN SAMPLE_BASE_PRICES
                       ELSE SAMPLE_FACTION_PRICES
    IN  IF type_id \in DOMAIN sample_dict
        THEN MarketData(type_id, sample_dict[type_id][1],
                        RInt(sample_dict[type_id][2]))
        ELSE None

\* sorted(..., key=price): stable insertion in ascending price order
RECURSIVE InsertByPrice(_, _)
InsertByPrice(s, o) ==
    IF s = <<>> THEN <<o>>
    ELSE IF o.price < Head(s).price THEN <<o>> \o s
    ELSE <<Head(s)>> \o InsertByPrice(Tail(s), o)

RECURSIVE SortByPrice(_)
SortByPrice(s) ==
    IF s = <<>> THEN <<>>
    ELSE InsertByPrice(SortByPrice(SubSeq(s, 1, Len(s) - 1)), s[Len(s)])

\* the tail of get_sell_orders: keep the Jita orders (all of them when there
\* is none in Jita), lowest price first
SellOrders(all_orders) ==
    LET jita_orders == SelectSeq(all_orders, LAMBDA o : o.jita)
    IN  SortByPrice(IF jita_orders = <<>> THEN all_orders ELSE jita_orders)

\* daily volume from the history list (empty list or failed request: 0)
DailyVolume(hist) ==
    IF hist = <<>> THEN RInt(0)
    ELSE LET recent == IF Len(hist) >= HISTORY_WINDOW
                       THEN SubSeq(hist, Len(hist) - HISTORY_WINDOW + 1, Len(hist))
                       ELSE hist
         IN  Rat(SumSeq(recent), Len(recent))

(***************************************************************************)
(* analyze_items: the evaluation of one entry                              *)
(***************************************************************************)
base_cost_of(item, base_market) == base_market.price * item.units_per_purchase

faction_revenue_of(item, faction_market) ==
    faction_market.price * item.units_per_purchase

total_cost_of(item, base_market) == base_cost_of(item, base_market) + item.isk_cost

profit_of(item, base_market, faction_market) ==
    faction_revenue_of(item, faction_market) - total_cost_of(item, base_market)

ItemAnalysis(item, base_market, faction_market) ==
    [item |-> item,
     base_market |-> base_market,
     faction_market |-> faction_market,
     base_cost_per_purchase |-> base_cost_of(item, base_market),
     faction_revenue_per_purchase |-> faction_revenue_of(item, faction_market),
     total_cost_per_purchase |-> total_cost_of(item, base_market),
     profit_per_purchase |-> profit_of(item, base_market, faction_market),
     net_isk_per_lp |-> Rat(profit_of(item, base_market, faction_market),
                            item.lp_cost),
     daily_volume_purchases |->
         RDiv(faction_market.daily_volume, RInt(item.units_per_purchase)),
     lp_per_m3 |-> IF volume_per_purchase(item) > 0
                   THEN Rat(item.lp_cost, volume_per_purchase(item))
                   ELSE RInt(0)]

\* the test that skips an entry once its base quote is there
FactionUsable(faction_market) ==
    faction_market # None /\ faction_market.price > 0

\* mutant: a profit of exactly 0 passes
Profitable_OrZero(item, base_market, faction_market) ==
    profit_of(item, base_market, faction_market) >= 0

Profitable(item, base_market, faction_market) ==
    profit_of(item, base_market, faction_market) > 0

(***************************************************************************)
(* optimize_purchases: liquidity filter, scoring, ordering                 *)
(***************************************************************************)
\* the list comprehension of the liquidity filter
LiquidityFilter(analyses_, min_liquidity) ==
    SelectSeq(analyses_,
              LAMBDA a : RLe(min_liquidity, a.daily_volume_purchases))

\* mutant: no fallback when the filter leaves nothing
ViableItems_NoFallback(analyses_, min_liquidity) ==
    LiquidityFilter(analyses_, min_liquidity)

\* the filter with its fallback to the whole list
ViableItems(analyses_, min_liquidity) ==
    IF LiquidityFilter(analyses_, min_liquidity) = <<>>
    THEN analyses_
    ELSE LiquidityFilter(analyses_, min_liquidity)

RECURSIVE SumLpPerM3(_)
SumLpPerM3(s) ==
    IF s = <<>> THEN RInt(0) ELSE RAdd(Head(s).lp_per_m3, SumLpPerM3(Tail(s)))

avg_lp_per_m3(viable) ==
    IF viable # <<>> THEN RDiv(SumLpPerM3(viable), RInt(Len(viable)))
    ELSE RInt(1)

sort_key(a, max_days_to_sell, lp_density_weight, avg) ==
    LET base_value == a.net_isk_per_lp
        days_to_sell_one == RDiv(RInt(1), a.daily_volume_purchases)
        penalised ==
            IF RIsPos(a.daily_volume_purchases)
               /\ RLt(RInt(max_days_to_sell), days_to_sell_one)
            THEN RMul(base_value, RDiv(RInt(max_days_to_sell), days_to_sell_one))
            ELSE base_value
    IN  IF lp_density_weight > 0 /\ RIsPos(avg)
        THEN RMul(penalised, RPow(RDiv(a.lp_per_m3, avg), lp_density_weight))
        ELSE penalised

\* list.sort(key=sort_key, reverse=True): stable, highest key first
RECURSIVE InsertByKey(_, _, _, _, _)
InsertByKey(s, a, d, w, avg) ==
    IF s = <<>> THEN <<a>>
    ELSE IF RLt(sort_key(Head(s), d, w, avg), sort_key(a, d, w, avg))
         THEN <<a>> \o s
         ELSE <<Head(s)>> \o InsertByKey(Tail(s), a, d, w, avg)

RECURSIVE SortByKey(_, _, _, _)
SortByKey(s, d, w, avg) ==
    IF s = <<>> THEN <<>>
    ELSE InsertByKey(SortByKey(SubSeq(s, 1, Len(s) - 1), d, w, avg),
                     s[Len(s)], d, w, avg)

\* viable_items as handed to the allocation strategy
ScoredItems(analyses_, o) ==
    LET viable == ViableItems(analyses_, o.min_liquidity)
    IN  SortByKey(viable, o.max_days_to_sell, o.lp_density_weight,
                  avg_lp_per_m3(viable))

(***************************************************************************)
(* The quantities of the two allocation strategies                         *)
(***************************************************************************)
\* mutant: the LP bound rounds up
max_by_lp_RoundUp(a, rem_lp) == (rem_lp + a.item.lp_cost - 1) \div a.item.lp_cost

\* remaining_lp // item.lp_cost
max_by_lp(a, rem_lp) == rem_lp \div a.item.lp_cost

\* mutant: the cargo bound rounds up
max_by_cargo_RoundUp(a, rem_cargo) ==
    (rem_cargo + volume_per_purchase(a.item) - 1) \div volume_per_purchase(a.item)

\* int(remaining_cargo // item.volume_per_purchase), for a volume > 0
max_by_cargo(a, rem_cargo) == rem_cargo \div volume_per_purchase(a.item)

\* int(daily_volume_purchases * max_days_to_sell)
max_total(a, max_days_to_sell) ==
    RTrunc(RMul(a.daily_volume_purchases, RInt(max_days_to_sell)))

\* mutant: the market-depth limit of a single day
max_by_volume_OneDay(a, max_days_to_sell) ==
    IF RIsPos(a.daily_volume_purchases) THEN RTrunc(a.daily_volume_purchases)
    ELSE 1

\* greedy: the market-depth limit of one candidate
max_by_volume(a, max_days_to_sell) ==
    IF RIsPos(a.daily_volume_purchases) THEN max_total(a, max_days_to_sell)
    ELSE 1

\* mutant: at most one lot per candidate
GreedyQuantity_OneLot(a, rem_lp, rem_cargo, max_days_to_sell) ==
    Min({max_by_lp(a, rem_lp), max_by_cargo(a, rem_cargo), 1})

GreedyQuantity(a, rem_lp, rem_cargo, max_days_to_sell) ==
    Min({max_by_lp(a, rem_lp), max_by_cargo(a, rem_cargo),
         Max({1, max_by_volume(a, max_days_to_sell)})})

\* mutant: what was already allocated is not deducted
remaining_for_item_NoDeduct(a, current_qty, max_days_to_sell) ==
    IF RIsPos(a.daily_volume_purchases) THEN max_total(a, max_days_to_sell)
    ELSE 1

\* diversified: what the candidate may still take in total
remaining_for_item(a, current_qty, max_days_to_sell) ==
    IF RIsPos(a.daily_volume_purchases)
    THEN Max({0, max_total(a, max_days_to_sell) - current_qty})
    ELSE 1 - current_qty

\* mutant: the batch is not raised to one lot
batch_purchases_NoFloor(a, current_qty, max_days_to_sell, batch_size_days) ==
    IF RIsPos(a.daily_volume_purchases)
    THEN Min({RTrunc(RMul(a.daily_volume_purchases, RInt(batch_size_days))),
              remaining_for_item(a, current_qty, max_days_to_sell)})
    ELSE 1

\* diversified: the batch of one visit before the budgets are applied
batch_purchases(a, current_qty, max_days_to_sell, batch_size_days) ==
    IF RIsPos(a.daily_volume_purchases)
    THEN Min({Max({1, RTrunc(RMul(a.daily_volume_purchases,
                                  RInt(batch_size_days)))}),
              remaining_for_item(a, current_qty, max_days_to_sell)})
    ELSE 1

DiversifiedQuantity(a, current_qty, rem_lp, rem_cargo, max_days_to_sell, batch_size_days) ==
    Min({batch_purchases(a, current_qty, max_days_to_sell, batch_size_days),
         max_by_lp(a, rem_lp), max_by_cargo(a, rem_cargo)})

(***************************************************************************)
(* State                                                                   *)
(***************************************************************************)
VARIABLES
    pc,               \* where the run stands
    lp,               \* --lp
    cargo,            \* --cargo
    opts,             \* min_liquidity, max_days_to_sell, diversify,
                      \* batch_size_days, lp_density_weight
    categories,       \* --categories (<<>> when the option is not given)
    use_sample,       \* --sample
    items,            \* main: the catalog entries to analyse
    i,                \* analyze_items: index of the entry being evaluated
    side,             \* "base" or "faction": the good get_market_data serves
    orders,           \* get_sell_orders: orders gathered so far
    page,             \* get_sell_orders: page to request next
    req_log,          \* requests made by the get_market_data call in flight
    quote,            \* value get_market_data returns, until the caller takes it
    base_market,      \* analyze_items: base quote of the entry
    faction_market,   \* analyze_items: faction quote of the entry
    analyses,         \* analyze_items: the retained analyses
    viable_items,     \* the filtered, scored candidates
    allocations,      \* diversified: quantity per candidate
    purchases,        \* the (candidate, quantity) pairs; a candidate is named
                      \* by its position in viable_items
    remaining_lp,
    remaining_cargo,
    allocation_made,  \* diversified: the round committed a batch
    k,                \* position of the candidate the strategy visits next
    fetch_started,    \* a get_market_data call was made
    message,          \* the last "Error: ..." line printed ("" when none)
    exit_status,      \* <<>> while running, <<status>> once the process exited
    output            \* content written to the output file (None: no file)

vars == <<pc, lp, cargo, opts, categories, use_sample, items, i, side, orders,
          page, req_log, quote, base_market, faction_market, analyses,
          viable_items, allocations, purchases, remaining_lp, remaining_cargo,
          allocation_made, k, fetch_started, message, exit_status, output>>

inputVars == <<lp, cargo, opts, categories, use_sample>>
fetchVars == <<side, orders, page, req_log, quote>>
analyzeVars == <<items, i, base_market, faction_market, analyses>>
allocVars == <<viable_items, allocations, purchases, remaining_lp,
               remaining_cargo, allocation_made, k>>
exitVars == <<message, exit_status, output>>

(***************************************************************************)
(* Inputs                                                                  *)
(***************************************************************************)
OptionSet ==
    [min_liquidity : {RInt(m) : m \in 1..MaxMinLiquidity},
     max_days_to_sell : 1..MaxDays,
     diversify : BOOLEAN,
     batch_size_days : 1..MaxBatchDays,
     lp_density_weight : 0..MaxDensityWeight]

\* `main` is run with every strategy and budget, the other options at one
\* value each; SpecOpt runs optimize_purchases over all of OptionSet
MainOptionSet ==
    { o \in OptionSet : /\ o.min_liquidity = RInt(1)
                        /\ o.max_days_to_sell = MaxDays
                        /\ o.batch_size_days = 1
                        /\ o.lp_density_weight = MaxDensityWeight }

CategoryFilters ==
    { <<>>, <<"ammo_s">>, <<"drone_light">>, <<"bogus">>, <<"ammo_s", "bogus">> }

\* the store items optimize_purchases may be handed
ItemSet ==
    { LPStoreItem("item", 0, 0, c, 0, u, v, "ammo_s") :
        c \in 1..MaxLpCost, u \in 1..MaxUnits, v \in 0..MaxVolPerUnit }

\* the analyses of those items that analyze_items retains
AnalysisSet ==
    { ItemAnalysis(it, MarketData(0, 1, RInt(0)), MarketData(0, p, RInt(dv))) :
        it \in ItemSet, p \in 2..MaxPrice, dv \in 0..MaxDailyVolume }

AnalysisLists == UNION { [1..n -> AnalysisSet] : n \in 0..MaxItems }

\* one order of an order-book page
OrderSet == [price : 0..MaxPrice, jita : BOOLEAN]

\* _request on an order-book page: None on a transport failure, else the
\* page; len1000 tells whether the page holds 1000 orders or more
OrderResponses ==
    { [failed |-> TRUE, data |-> <<>>, len1000 |-> FALSE],
      [failed |-> FALSE, data |-> <<>>, len1000 |-> FALSE] }
    \cup { [failed |-> FALSE, data |-> <<o>>, len1000 |-> f] :
             o \in OrderSet, f \in BOOLEAN }

HistoryLists == UNION { [1..n -> 0..MaxDailyVolume] : n \in 0..MaxHistory }

\* _request on the trade history
HistoryResponses ==
    { [failed |-> TRUE, data |-> <<>>] }
    \cup { [failed |-> FALSE, data |-> h] : h \in HistoryLists }

Idle ==
    /\ side = "base" /\ orders = <<>> /\ page = 1 /\ req_log = <<>>
    /\ quote = None /\ base_market = None /\ faction_market = None
    /\ viable_items = <<>> /\ allocations = <<>> /\ purchases = <<>>
    /\ remaining_lp = 0 /\ remaining_cargo = 0 /\ allocation_made = FALSE
    /\ k = 1 /\ fetch_started = FALSE /\ message = ""
    /\ exit_status = <<>> /\ output = None

\* the process starts `main` with its command-line options
Init ==
    /\ pc = "main"
    /\ lp \in 1..MaxLP
    /\ cargo \in 1..MaxCargo
    /\ opts \in MainOptionSet
    /\ categories \in CategoryFilters
    /\ use_sample \in BOOLEAN
    /\ items = <<>> /\ i = 1 /\ analyses = <<>>
    /\ Idle

\* a caller hands optimize_purchases a list of analyses
InitOpt ==
    /\ pc = "optimize"
    /\ lp \in 1..MaxLP
    /\ cargo \in 1..MaxCargo
    /\ opts \in OptionSet
    /\ categories = <<>>
    /\ use_sample = FALSE
    /\ items = <<>> /\ i = 1
    /\ analyses \in AnalysisLists
    /\ Idle

(***************************************************************************)
(* main: validation and catalog selection                                  *)
(***************************************************************************)
InSeq(x, s) == \E j \in 1..Len(s) : s[j] = x

\* mutant: only the first category is validated
InvalidCategories_FirstOnly(cats) ==
    IF cats # <<>> /\ cats[1] \notin valid_categories THEN <<cats[1]>> ELSE <<>>

\* invalid = [c for c in categories if c not in valid_categories]
InvalidCategories(cats) == SelectSeq(cats, LAMBDA c : c \notin valid_categories)

\* items = [i for i in items if i.category in categories]
SelectItems(cats) ==
    IF cats # <<>>
    THEN SelectSeq(LP_STORE_ITEMS, LAMBDA it : InSeq(it.category, cats))
    ELSE LP_STORE_ITEMS

\* raise typer.Exit(1) after printing msg
Exit1(msg) ==
    /\ message' = msg
    /\ exit_status' = <<1>>
    /\ pc' = "exit"
    /\ UNCHANGED output

\* main up to the call of analyze_items
MainValidate ==
    /\ pc = "main"
    /\ IF categories # <<>> /\ InvalidCategories(categories) # <<>>
       THEN /\ Exit1("Error: Invalid categories")
            /\ UNCHANGED <<items, i, analyses>>
       ELSE /\ items' = SelectItems(categories)
            /\ i' = 1
            /\ analyses' = <<>>
            /\ pc' = "analyze"
            /\ UNCHANGED exitVars
    /\ UNCHANGED <<inputVars, fetchVars, base_market, faction_market, allocVars,
                   fetch_started>>

(***************************************************************************)
(* analyze_items and ESIClient.get_market_data                             *)
(***************************************************************************)
\* loop head with an entry left: call get_market_data for its base good
AnalyzeNextItem ==
    /\ pc = "analyze"
    /\ i <= Len(items)
    /\ side' = "base"
    /\ base_market' = None
    /\ faction_market' = None
    /\ pc' = "get_market_data"
    /\ UNCHANGED <<inputVars, orders, page, req_log, quote, items, i, analyses,
                   allocVars, fetch_started, exitVars>>

type_id_of(item, s) ==
    IF s = "base" THEN item.base_type_id ELSE item.faction_type_id

\* get_market_data: the sample branch returns at once, the live branch
\* enters get_sell_orders
GetMarketData ==
    /\ pc = "get_market_data"
    /\ fetch_started' = TRUE
    /\ req_log' = <<>>
    /\ orders' = <<>>
    /\ page' = 1
    /\ IF use_sample
       THEN /\ quote' = SampleMarketData(type_id_of(items[i], side), side = "base")
            /\ pc' = "got_quote"
       ELSE /\ quote' = None
            /\ pc' = "orders"
    /\ UNCHANGED <<inputVars, side, analyzeVars, allocVars, exitVars>>

\* get_sell_orders has ended with all_orders gathered: the rest of
\* get_market_data up to the history request
AfterSellOrders(all_orders) ==
    /\ orders' = <<>>
    /\ page' = 1
    /\ IF SellOrders(all_orders) = <<>>
       THEN /\ quote' = None
            /\ pc' = "got_quote"
       ELSE /\ quote' = MarketData(type_id_of(items[i], side),
                                   SellOrders(all_orders)[1].price, RInt(0))
            /\ pc' = "history"

\* mutant: a failed page request is made again
RequestOrdersPage_Retry ==
    /\ pc = "orders"
    /\ \E r \in OrderResponses :
         /\ r.len1000 => page < MaxPages
         /\ req_log' = Append(req_log, [endpoint |-> "orders", page |-> page,
                                        failed |-> r.failed])
         /\ IF r.failed
            THEN UNCHANGED <<orders, page, quote, pc>>
            ELSE IF r.data = <<>>
            THEN AfterSellOrders(orders)
            ELSE IF ~r.len1000
            THEN AfterSellOrders(orders \o r.data)
            ELSE /\ orders' = orders \o r.data
                 /\ page' = page + 1
                 /\ UNCHANGED <<quote, pc>>
    /\ UNCHANGED <<inputVars, side, analyzeVars, allocVars, fetch_started,
                   exitVars>>

\* one turn of the page loop of get_sell_orders
RequestOrdersPage ==
    /\ pc = "orders"
    /\ \E r \in OrderResponses :
         /\ r.len1000 => page < MaxPages
         /\ req_log' = Append(req_log, [endpoint |-> "orders", page |-> page,
                                        failed |-> r.failed])
         /\ IF r.failed \/ r.data = <<>>
            THEN AfterSellOrders(orders)
            ELSE IF ~r.len1000
            THEN AfterSellOrders(orders \o r.data)
            ELSE /\ orders' = orders \o r.data
                 /\ page' = page + 1
                 /\ UNCHANGED <<quote, pc>>
    /\ UNCHANGED <<inputVars, side, analyzeVars, allocVars, fetch_started,
                   exitVars>>

\* get_market_history and the return of get_market_data
RequestHistory ==
    /\ pc = "history"
    /\ \E r \in HistoryResponses :
         /\ req_log' = Append(req_log, [endpoint |-> "history", page |-> 1,
                                        failed |-> r.failed])
         /\ quote' = MarketData(quote.type_id, quote.price, DailyVolume(r.data))
    /\ pc' = "got_quote"
    /\ UNCHANGED <<inputVars, side, orders, page, analyzeVars, allocVars,
                   fetch_started, exitVars>>

\* analyze_items receives the base quote
GotBaseQuote ==
    /\ pc = "got_quote"
    /\ side = "base"
    /\ base_market' = quote
    /\ IF quote = None
       THEN /\ i' = i + 1
            /\ pc' = "analyze"
            /\ UNCHANGED side
       ELSE /\ side' = "faction"
            /\ pc' = "get_market_data"
            /\ UNCHANGED i
    /\ req_log' = <<>>
    /\ quote' = None
    /\ UNCHANGED <<inputVars, orders, page, items, faction_market,
                   analyses, allocVars, fetch_started, exitVars>>

\* what the evaluation of an entry appends to analyses
Retained(item, bm, fm) ==
    IF FactionUsable(fm) /\ Profitable(item, bm, fm)
    THEN <<ItemAnalysis(item, bm, fm)>>
    ELSE <<>>

\* analyze_items receives the faction quote and evaluates the entry
GotFactionQuote ==
    /\ pc = "got_quote"
    /\ side = "faction"
    /\ faction_market' = quote
    /\ analyses' = analyses \o Retained(items[i], base_market, quote)
    /\ i' = i + 1
    /\ pc' = "analyze"
    /\ req_log' = <<>>
    /\ quote' = None
    /\ UNCHANGED <<inputVars, side, orders, page, items, base_market,
                   allocVars, fetch_started, exitVars>>

\* analyze_items returns (its locals are gone); main stops when nothing is
\* profitable
AnalyzeReturn ==
    /\ pc = "analyze"
    /\ i > Len(items)
    /\ IF analyses = <<>>
       THEN Exit1("Error: No profitable items found")
       ELSE /\ pc' = "optimize"
            /\ UNCHANGED exitVars
    /\ side' = "base"
    /\ base_market' = None
    /\ faction_market' = None
    /\ UNCHANGED <<inputVars, orders, page, req_log, quote, items, i, analyses,
                   allocVars, fetch_started>>

(***************************************************************************)
(* optimize_purchases and the two strategies                               *)
(***************************************************************************)
\* an exception nothing catches: the traceback ends the process with status 1
Raise(err) ==
    /\ pc' = "raised"
    /\ message' = err
    /\ exit_status' = <<1>>
    /\ UNCHANGED output

\* mutant: the loops stop with one unit of a budget left
BudgetLeft_StopEarly == remaining_lp > 1 /\ remaining_cargo > 1

\* not (remaining_lp <= 0 or remaining_cargo <= 0)
BudgetLeft == remaining_lp > 0 /\ remaining_cargo > 0

\* optimize_purchases up to the first statement of the chosen strategy
OptimizePurchases ==
    /\ pc = "optimize"
    /\ viable_items' = ScoredItems(analyses, opts)
    /\ allocations' = [n \in 1..Len(ScoredItems(analyses, opts)) |-> 0]
    /\ purchases' = <<>>
    /\ remaining_lp' = lp
    /\ remaining_cargo' = cargo
    /\ allocation_made' = TRUE
    /\ k' = 1
    /\ pc' = IF opts.diversify THEN "div_while" ELSE "greedy"
    /\ UNCHANGED <<inputVars, fetchVars, analyzeVars, fetch_started, exitVars>>

\* the lots the greedy strategy gives the candidate it visits
GreedyTake(a) ==
    GreedyQuantity(a, remaining_lp, remaining_cargo, opts.max_days_to_sell)

\* _greedy_allocation: one iteration of the loop over viable_items
GreedyStep ==
    /\ pc = "greedy"
    /\ k <= Len(viable_items)
    /\ BudgetLeft
    /\ LET a == viable_items[k] IN
       IF volume_per_purchase(a.item) = 0
       THEN /\ Raise("ZeroDivisionError")
            /\ UNCHANGED <<purchases, remaining_lp, remaining_cargo, k>>
       ELSE /\ IF GreedyTake(a) > 0
               THEN /\ purchases' = Append(purchases, <<k, GreedyTake(a)>>)
                    /\ remaining_lp' = remaining_lp - GreedyTake(a) * a.item.lp_cost
                    /\ remaining_cargo' =
                         remaining_cargo - GreedyTake(a) * volume_per_purchase(a.item)
               ELSE UNCHANGED <<purchases, remaining_lp, remaining_cargo>>
            /\ k' = k + 1
            /\ UNCHANGED <<pc, exitVars>>
    /\ UNCHANGED <<inputVars, fetchVars, analyzeVars, viable_items, allocations,
                   allocation_made, fetch_started>>

\* _greedy_allocation: the loop ends (break or list exhausted), return purchases
GreedyReturn ==
    /\ pc = "greedy"
    /\ k > Len(viable_items) \/ ~BudgetLeft
    /\ pc' = "returned"
    /\ UNCHANGED <<inputVars, fetchVars, analyzeVars, allocVars, fetch_started,
                   exitVars>>

\* mutant: allocation_made is not reset when a round begins
DiversifiedRoundStart_NoReset ==
    /\ pc = "div_while"
    /\ allocation_made /\ BudgetLeft
    /\ k' = 1
    /\ pc' = "div_for"
    /\ UNCHANGED <<inputVars, fetchVars, analyzeVars, viable_items, allocations,
                   purchases, remaining_lp, remaining_cargo, allocation_made,
                   fetch_started, exitVars>>

\* _diversified_allocation: the while test holds, a round begins
DiversifiedRoundStart ==
    /\ pc = "div_while"
    /\ allocation_made /\ BudgetLeft
    /\ allocation_made' = FALSE
    /\ k' = 1
    /\ pc' = "div_for"
    /\ UNCHANGED <<inputVars, fetchVars, analyzeVars, viable_items, allocations,
                   purchases, remaining_lp, remaining_cargo, fetch_started,
                   exitVars>>

\* the lots the diversified strategy gives the candidate it visits
DiversifiedTake(a, current_qty) ==
    DiversifiedQuantity(a, current_qty, remaining_lp, remaining_cargo,
                        opts.max_days_to_sell, opts.batch_size_days)

\* _diversified_allocation: one iteration of the loop over allocations
DiversifiedStep ==
    /\ pc = "div_for"
    /\ k <= Len(viable_items)
    /\ BudgetLeft
    /\ LET a == viable_items[k]
           current_qty == allocations[k]
       IN
       IF remaining_for_item(a, current_qty, opts.max_days_to_sell) <= 0
       THEN /\ k' = k + 1
            /\ UNCHANGED <<allocations, remaining_lp, remaining_cargo,
                           allocation_made, pc, exitVars>>
       ELSE IF volume_per_purchase(a.item) = 0
       THEN /\ Raise("ZeroDivisionError")
            /\ UNCHANGED <<allocations, remaining_lp, remaining_cargo,
                           allocation_made, k>>
       ELSE /\ IF DiversifiedTake(a, current_qty) > 0
               THEN /\ allocations' =
                         [allocations EXCEPT
                            ![k] = @ + DiversifiedTake(a, current_qty)]
                    /\ remaining_lp' =
                         remaining_lp - DiversifiedTake(a, current_qty) * a.item.lp_cost
                    /\ remaining_cargo' =
                         remaining_cargo
                         - DiversifiedTake(a, current_qty) * volume_per_purchase(a.item)
                    /\ allocation_made' = TRUE
               ELSE UNCHANGED <<allocations, remaining_lp, remaining_cargo,
                                allocation_made>>
            /\ k' = k + 1
            /\ UNCHANGED <<pc, exitVars>>
    /\ UNCHANGED <<inputVars, fetchVars, analyzeVars, viable_items, purchases,
                   fetch_started>>

\* _diversified_allocation: the for loop ends (break or list exhausted)
DiversifiedRoundEnd ==
    /\ pc = "div_for"
    /\ k > Len(viable_items) \/ ~BudgetLeft
    /\ pc' = "div_while"
    /\ UNCHANGED <<inputVars, fetchVars, analyzeVars, allocVars, fetch_started,
                   exitVars>>

\* mutant: the pairs are returned last candidate first
RECURSIVE NonZero_Backwards(_, _)
NonZero_Backwards(alloc, n) ==
    IF n > Len(alloc) THEN <<>>
    ELSE NonZero_Backwards(alloc, n + 1)
         \o (IF alloc[n] > 0 THEN << <<n, alloc[n]>> >> ELSE <<>>)

\* mutant: the zero allocations are not filtered out
NonZero_KeepAll(alloc, n) == [j \in 1..Len(alloc) |-> <<j, alloc[j]>>]

\* [(analysis, qty) for analysis, qty in allocations if qty > 0]
RECURSIVE NonZero(_, _)
NonZero(alloc, n) ==
    IF n > Len(alloc) THEN <<>>
    ELSE (IF alloc[n] > 0 THEN << <<n, alloc[n]>> >> ELSE <<>>)
         \o NonZero(alloc, n + 1)

\* _diversified_allocation: the while test fails, return the nonzero pairs
DiversifiedReturn ==
    /\ pc = "div_while"
    /\ ~(allocation_made /\ BudgetLeft)
    /\ purchases' = NonZero(allocations, 1)
    /\ pc' = "returned"
    /\ UNCHANGED <<inputVars, fetchVars, analyzeVars, viable_items, allocations,
                   remaining_lp, remaining_cargo, allocation_made, k,
                   fetch_started, exitVars>>

(***************************************************************************)
(* main after optimize_purchases: report and output file                   *)
(***************************************************************************)
\* generate_multibuy: one (base good, units to buy) line per purchase
RECURSIVE generate_multibuy(_, _)
generate_multibuy(ps, viable) ==
    IF ps = <<>> THEN <<>>
    ELSE << <<viable[Head(ps)[1]].item.base_type_id,
              Head(ps)[2] * viable[Head(ps)[1]].item.units_per_purchase>> >>
         \o generate_multibuy(Tail(ps), viable)

RECURSIVE TotalLp(_, _)
TotalLp(ps, viable) ==
    IF ps = <<>> THEN 0
    ELSE Head(ps)[2] * viable[Head(ps)[1]].item.lp_cost + TotalLp(Tail(ps), viable)

RECURSIVE TotalVolume(_, _)
TotalVolume(ps, viable) ==
    IF ps = <<>> THEN 0
    ELSE Head(ps)[2] * volume_per_purchase(viable[Head(ps)[1]].item)
         + TotalVolume(Tail(ps), viable)

\* generate_report: the totals of the summary
generate_report(ps, viable) ==
    [total_lp_used |-> TotalLp(ps, viable),
     total_volume |-> TotalVolume(ps, viable)]

\* mutant: the report is written whatever optimize_purchases returned
MainReport_NoCheck ==
    /\ pc = "returned"
    /\ output' = [multibuy |-> generate_multibuy(purchases, viable_items),
                  report |-> generate_report(purchases, viable_items)]
    /\ exit_status' = <<0>>
    /\ pc' = "exit"
    /\ UNCHANGED message
    /\ UNCHANGED <<inputVars, fetchVars, analyzeVars, allocVars, fetch_started>>

\* main from the return of optimize_purchases to its end
MainReport ==
    /\ pc = "returned"
    /\ IF purchases = <<>>
       THEN Exit1("Error: No viable purchases")
       ELSE /\ output' = [multibuy |-> generate_multibuy(purchases, viable_items),
                          report |-> generate_report(purchases, viable_items)]
            /\ exit_status' = <<0>>
            /\ pc' = "exit"
            /\ UNCHANGED message
    /\ UNCHANGED <<inputVars, fetchVars, analyzeVars, allocVars, fetch_started>>

(***************************************************************************)
(* Specifications                                                          *)
(***************************************************************************)
Allocate ==
    \/ OptimizePurchases
    \/ GreedyStep
    \/ GreedyReturn
    \/ DiversifiedRoundStart
    \/ DiversifiedStep
    \/ DiversifiedRoundEnd
    \/ DiversifiedReturn

Next ==
    \/ MainValidate
    \/ AnalyzeNextItem
    \/ GetMarketData
    \/ RequestOrdersPage
    \/ RequestHistory
    \/ GotBaseQuote
    \/ GotFactionQuote
    \/ AnalyzeReturn
    \/ Allocate
    \/ MainReport

\* a run of the program
Spec == Init /\ [][Next]_vars

\* a call of optimize_purchases on any list of analyses
SpecOpt == InitOpt /\ [][Allocate]_vars

\* optimize_purchases is called with diversify=True on analyses of items
\* that take up cargo space
InitDiversified ==
    /\ InitOpt
    /\ opts.diversify
    /\ \A n \in 1..Len(analyses) : volume_per_purchase(analyses[n].item) > 0

\* the statements of _diversified_allocation
DiversifiedLoop ==
    \/ DiversifiedRoundStart
    \/ DiversifiedStep
    \/ DiversifiedRoundEnd
    \/ DiversifiedReturn

\* the steps of such a call
Diversify == OptimizePurchases \/ DiversifiedLoop

\* a call with diversify=True; once in _diversified_allocation the
\* interpreter executes the next statement as long as there is one
SpecDiversified ==
    InitDiversified /\ [][Diversify]_vars /\ WF_vars(DiversifiedLoop)

(***************************************************************************)
(* Properties                                                              *)
(***************************************************************************)
AllVolumesPositive ==
    \A n \in 1..Len(viable_items) : volume_per_purchase(viable_items[n].item) > 0

\* C1: under the greedy strategy the running remaining LP and remaining cargo
\* are never negative after any candidate is processed, and the pairs
\* allocated so far (the returned list at the end) cost no more LP than
\* available_lp and take no more volume than cargo_capacity.
C1_GreedyWithinBudgets ==
    (~opts.diversify /\ pc \in {"greedy", "returned"}) =>
        /\ remaining_lp >= 0
        /\ remaining_cargo >= 0
        /\ TotalLp(purchases, viable_items) <= lp
        /\ TotalVolume(purchases, viable_items) <= cargo

\* greedy has returned two pairs that use up the whole LP budget
C1_Witness ==
    /\ pc = "returned" /\ ~opts.diversify /\ AllVolumesPositive
    /\ Len(purchases) = 2
    /\ TotalLp(purchases, viable_items) = lp

\* C2: under the diversified strategy, after every committed batch in every
\* round, remaining LP and remaining cargo are >= 0, and the quantities
\* allocated (the returned list at the end) cost no more LP than available_lp
\* and take no more volume than cargo_capacity.
C2_DiversifiedWithinBudgets ==
    (opts.diversify /\ pc \in {"div_while", "div_for", "returned"}) =>
        /\ remaining_lp >= 0
        /\ remaining_cargo >= 0
        /\ TotalLp(NonZero(allocations, 1), viable_items) <= lp
        /\ TotalVolume(NonZero(allocations, 1), viable_items) <= cargo
        /\ pc = "returned" =>
             /\ TotalLp(purchases, viable_items) <= lp
             /\ TotalVolume(purchases, viable_items) <= cargo

\* diversified has returned after a second batch for some candidate used up
\* the whole cargo budget
C2_Witness ==
    /\ pc = "returned" /\ opts.diversify /\ AllVolumesPositive
    /\ Len(purchases) = 2
    /\ \E j \in 1..2 : purchases[j][2] >= 2
    /\ TotalVolume(purchases, viable_items) = cargo

\* C7: the list either strategy returns holds only pairs of a quantity >= 1,
\* names each candidate at most once, and leaves out the candidates that end
\* with quantity 0.
C7_ReturnedPairsPositive ==
    pc = "returned" =>
        /\ \A j \in 1..Len(purchases) :
             /\ purchases[j][1] \in 1..Len(viable_items)
             /\ purchases[j][2] \in Nat
             /\ purchases[j][2] >= 1
        /\ \A j1, j2 \in 1..Len(purchases) :
             purchases[j1][1] = purchases[j2][1] => j1 = j2
        /\ opts.diversify =>
             \A n \in 1..Len(allocations) :
                (allocations[n] = 0) <=>
                    (\A j \in 1..Len(purchases) : purchases[j][1] # n)

\* diversified has returned a list that leaves out a candidate of quantity 0
C7_Witness ==
    /\ pc = "returned" /\ opts.diversify
    /\ Len(viable_items) = 2
    /\ Len(purchases) = 1
    /\ \E n \in 1..2 : allocations[n] = 0

\* floor(daily-lot-absorption * max-days-to-sell), or 1 for an absorption of 0
LiquidityCap(a) ==
    IF a.daily_volume_purchases[1] > 0
    THEN (a.daily_volume_purchases[1] * opts.max_days_to_sell)
         \div a.daily_volume_purchases[2]
    ELSE 1

RECURSIVE CapLp(_)
CapLp(s) ==
    IF s = <<>> THEN 0
    ELSE LiquidityCap(Head(s)) * Head(s).item.lp_cost + CapLp(Tail(s))

RECURSIVE CapVolume(_)
CapVolume(s) ==
    IF s = <<>> THEN 0
    ELSE LiquidityCap(Head(s)) * volume_per_purchase(Head(s).item)
         + CapVolume(Tail(s))

\* the budgets pay for every candidate up to its liquidity cap and are not
\* used up by that
BudgetsNeverBind ==
    /\ CapLp(viable_items) < lp
    /\ CapVolume(viable_items) < cargo

QuantityOf(n) ==
    IF \E j \in 1..Len(purchases) : purchases[j][1] = n
    THEN purchases[CHOOSE j \in 1..Len(purchases) : purchases[j][1] = n][2]
    ELSE 0

\* C4: with budgets that never bind, the list the diversified strategy
\* returns gives a nonzero quantity to every candidate whose liquidity cap
\* is >= 1.
C4_DiversifiedReachesEveryCandidate ==
    (pc = "returned" /\ opts.diversify /\ BudgetsNeverBind) =>
        \A n \in 1..Len(viable_items) :
            LiquidityCap(viable_items[n]) >= 1 => QuantityOf(n) >= 1

\* diversified has returned, under budgets that never bind, a list naming two
\* candidates, one of absorption 0 and one whose batch of a day rounds to 0
C4_Witness ==
    /\ pc = "returned" /\ opts.diversify /\ BudgetsNeverBind
    /\ Len(viable_items) = 2
    /\ \A n \in 1..2 : LiquidityCap(viable_items[n]) >= 1 /\ QuantityOf(n) >= 1
    /\ \E n \in 1..2 : viable_items[n].daily_volume_purchases[1] = 0
    /\ \E n \in 1..2 :
         /\ viable_items[n].daily_volume_purchases[1] > 0
         /\ (viable_items[n].daily_volume_purchases[1] * opts.batch_size_days)
            \div viable_items[n].daily_volume_purchases[2] = 0

ScoreOf(n) ==
    sort_key(viable_items[n], opts.max_days_to_sell, opts.lp_density_weight,
             avg_lp_per_m3(viable_items))

\* two candidates of the same score, lp-cost and volume-per-lot
EquallyProfitablePair ==
    /\ Len(viable_items) = 2
    /\ viable_items[1].item.lp_cost = viable_items[2].item.lp_cost
    /\ volume_per_purchase(viable_items[1].item)
       = volume_per_purchase(viable_items[2].item)
    /\ volume_per_purchase(viable_items[1].item) > 0
    /\ ScoreOf(1) = ScoreOf(2)

\* the budgets pay for two lots in total and no more
OneLotEach ==
    /\ lp \div viable_items[1].item.lp_cost = 2
    /\ cargo \div volume_per_purchase(viable_items[1].item) = 2

Diverge ==
    IF opts.diversify
    THEN QuantityOf(1) >= 1 /\ QuantityOf(2) >= 1
    ELSE purchases = << <<1, 2>> >>

\* C5 as stated: for any two equally profitable candidates and budgets for
\* one lot of each, diversified gives both a nonzero quantity and greedy
\* gives the first candidate both lots and the second none.
C5_AnyEqualPairDiverges ==
    (pc = "returned" /\ EquallyProfitablePair /\ OneLotEach) => Diverge

\* every candidate may take two lots or more in total and one lot per round
TwoLotsOneBatch ==
    \A n \in 1..Len(viable_items) :
        /\ LiquidityCap(viable_items[n]) >= 2
        /\ (viable_items[n].daily_volume_purchases[1] * opts.batch_size_days)
           \div viable_items[n].daily_volume_purchases[2] <= 1

\* C5 (amended): for two equally profitable candidates whose liquidity cap is
\* >= 2 and whose per-round batch is one lot, and budgets for one lot of each,
\* diversified gives both a nonzero quantity and greedy gives the first
\* candidate both lots and the second none.
C5_LiquidEqualPairDiverges ==
    (pc = "returned" /\ EquallyProfitablePair /\ OneLotEach /\ TwoLotsOneBatch)
        => Diverge

\* greedy has returned both lots on the first of two such candidates
C5_Witness ==
    /\ pc = "returned" /\ EquallyProfitablePair /\ OneLotEach /\ TwoLotsOneBatch
    /\ ~opts.diversify
    /\ purchases = << <<1, 2>> >>

Count(s, x) == Cardinality({j \in 1..Len(s) : s[j] = x})

\* the same elements, each as many times
SameItems(s, t) ==
    /\ Len(s) = Len(t)
    /\ \A j \in 1..Len(s) : Count(s, s[j]) = Count(t, s[j])

BelowThreshold(a) ==
    a.daily_volume_purchases[1] * opts.min_liquidity[2]
        < opts.min_liquidity[1] * a.daily_volume_purchases[2]

\* C6: the candidates optimize_purchases scores and allocates are the whole
\* input list when min_liquidity is above the absorption of every analysis,
\* and otherwise the analyses of absorption >= min_liquidity; a non-empty
\* input never leaves the strategy an empty list.
C6_LiquidityFallback ==
    pc \in {"greedy", "div_while", "div_for", "returned", "raised"} =>
        /\ IF \A j \in 1..Len(analyses) : BelowThreshold(analyses[j])
           THEN SameItems(viable_items, analyses)
           ELSE SameItems(viable_items,
                          SelectSeq(analyses, LAMBDA a : ~BelowThreshold(a)))
        /\ analyses # <<>> => viable_items # <<>>

\* the strategy runs on both of two analyses that were below the threshold
C6_Witness ==
    /\ pc \in {"greedy", "div_for"}
    /\ Len(analyses) = 2
    /\ \A j \in 1..2 : BelowThreshold(analyses[j])
    /\ Len(viable_items) = 2

\* the step appends to analyses an Analysis of the entry under evaluation
RetainsEntry ==
    /\ Len(analyses') = Len(analyses) + 1
    /\ SubSeq(analyses', 1, Len(analyses)) = analyses
    /\ analyses'[Len(analyses')].item = items[i]

\* revenue-per-lot > cost-per-lot for the entry, from the two quotes
RevenueAboveCost(item, bq, fq) ==
    fq.price * item.units_per_purchase
        > bq.price * item.units_per_purchase + item.isk_cost

\* C3: analyze_items retains an Analysis for an entry if and only if its
\* input-good quote exists, its output-good quote exists, the output price is
\* > 0 and revenue-per-lot > cost-per-lot; otherwise the entry is left out, no
\* exception is raised and the loop goes on with the next entry.
C3_RetainedIffViable ==
    [][ pc = "got_quote" =>
          /\ pc' # "raised"
          /\ IF side = "base"
             THEN /\ analyses' = analyses
                  /\ IF quote = None
                     THEN i' = i + 1 /\ pc' = "analyze"
                     ELSE i' = i /\ side' = "faction" /\ pc' = "get_market_data"
             ELSE /\ RetainsEntry <=>
                        /\ base_market # None
                        /\ quote # None
                        /\ quote.price > 0
                        /\ RevenueAboveCost(items[i], base_market, quote)
                  /\ ~RetainsEntry => analyses' = analyses
                  /\ i' = i + 1
                  /\ pc' = "analyze" ]_vars

\* the loop has left out the first entry, whose quotes gave revenue equal to
\* cost or less, and retained the second
C3_Witness ==
    /\ pc = "analyze" /\ i = 3
    /\ Len(analyses) = 1
    /\ analyses[1].item = items[2]
    /\ faction_market # None

FailedIn(log) == \E j \in 1..Len(log) : log[j].failed

NotRetried ==
    /\ \A j1, j2 \in 1..Len(req_log) :
          (/\ req_log[j1].endpoint = req_log[j2].endpoint
           /\ req_log[j1].page = req_log[j2].page) => j1 = j2
    /\ \A j1, j2 \in 1..Len(req_log) :
          (/\ req_log[j1].endpoint = "orders" /\ req_log[j1].failed
           /\ req_log[j2].endpoint = "orders") => j2 <= j1

InvalidFilter == \E j \in 1..Len(categories) : categories[j] \notin valid_categories

\* C9: with a category outside the valid set in the filter, the run ends with
\* exit status 1 and no market data is fetched, nothing is analysed or
\* allocated and no output is written, before or after the validation fails.
C9_InvalidCategoryStopsFirst ==
    InvalidFilter =>
        /\ pc \in {"main", "exit"}
        /\ ~fetch_started
        /\ req_log = <<>>
        /\ analyses = <<>> /\ viable_items = <<>> /\ purchases = <<>>
        /\ output = None
        /\ pc = "exit" =>
             exit_status = <<1>> /\ message = "Error: Invalid categories"

\* the run has ended on a filter that holds a valid and an invalid category
C9_Witness ==
    /\ pc = "exit"
    /\ categories = <<"ammo_s", "bogus">>
    /\ exit_status = <<1>>

\* C10: the output is written only when the analysed set and the allocation
\* result are non-empty; when the analyser retains nothing or the strategy
\* returns an empty list the run ends with status 1 and writes no output.
C10_OutputNeedsPurchases ==
    /\ output # None =>
          analyses # <<>> /\ purchases # <<>> /\ exit_status = <<0>>
    /\ pc \in {"optimize", "greedy", "div_while", "div_for", "returned"} =>
          analyses # <<>>
    /\ (pc = "exit" /\ (analyses = <<>> \/ purchases = <<>>)) =>
          exit_status = <<1>> /\ output = None
    /\ (pc = "exit" /\ analyses # <<>> /\ purchases # <<>>) =>
          exit_status = <<0>> /\ output # None

\* the run has ended with status 1 on budgets too small for one lot of the
\* only profitable entry
C10_Witness ==
    /\ pc = "exit"
    /\ analyses # <<>>
    /\ viable_items # <<>>
    /\ purchases = <<>>
    /\ message = "Error: No viable purchases"
    /\ exit_status = <<1>>

DiversifiedRunning ==
    opts.diversify /\ pc \in {"div_while", "div_for", "returned", "raised"}

\* C11: at every point of the diversified strategy, across any number of
\* rounds, the cumulative quantity of a candidate is at most
\* floor(absorption * max-days-to-sell) when its absorption is > 0 and at
\* most 1 when its absorption is 0; a candidate of absorption > 0 whose
\* floor is 0 is never allocated anything.
C11_DiversifiedWithinLiquidityCap ==
    DiversifiedRunning =>
        /\ \A n \in 1..Len(viable_items) :
             /\ allocations[n] <= LiquidityCap(viable_items[n])
             /\ (/\ viable_items[n].daily_volume_purchases[1] > 0
                 /\ LiquidityCap(viable_items[n]) = 0) => allocations[n] = 0
        /\ pc = "returned" =>
             \A n \in 1..Len(viable_items) :
                 QuantityOf(n) <= LiquidityCap(viable_items[n])

\* diversified has returned after a round that committed nothing although the
\* budgets still pay for a lot of a candidate: that candidate stands at its
\* cap of one lot, and the other one, of an absorption > 0 whose floor is 0,
\* got nothing
C11_Witness ==
    /\ pc = "returned" /\ opts.diversify /\ AllVolumesPositive
    /\ ~allocation_made
    /\ Len(viable_items) = 2
    /\ \E n \in 1..2 :
         /\ viable_items[n].daily_volume_purchases[1] > 0
         /\ LiquidityCap(viable_items[n]) = 1
         /\ allocations[n] = 1
         /\ remaining_lp >= viable_items[n].item.lp_cost
         /\ remaining_cargo >= volume_per_purchase(viable_items[n].item)
    /\ \E n \in 1..2 :
         /\ viable_items[n].daily_volume_purchases[1] > 0
         /\ LiquidityCap(viable_items[n]) = 0
         /\ allocations[n] = 0

\* the round loop ends as soon as a round committed nothing or a budget is
\* used up: the for loop is left at once, the while test fails, the strategy
\* returns
RoundLoopEnds ==
    /\ (pc = "div_for" /\ ~BudgetLeft) =>
           (pc' = "div_while" /\ allocations' = allocations)
    /\ (pc = "div_while" /\ (~allocation_made \/ ~BudgetLeft)) =>
           pc' = "returned"

\* the remaining LP never grows during the rounds, and the step that commits
\* a batch makes it strictly smaller
CommitDecreasesLp ==
    (pc \in {"div_while", "div_for"}) =>
        /\ remaining_lp' <= remaining_lp
        /\ (allocations' # allocations \/ (allocation_made' /\ ~allocation_made))
             => remaining_lp' < remaining_lp

\* C12: for every candidate list with lp-cost > 0 and volume-per-lot > 0 the
\* diversified strategy terminates: the round loop ends as soon as a full
\* round commits no batch or a budget reaches zero, and every commit of a
\* batch strictly decreases the remaining LP, which never grows.
C12_DiversifiedTerminates ==
    /\ [][RoundLoopEnds /\ CommitDecreasesLp]_vars
    /\ (opts.diversify /\ pc = "div_while" /\ AllVolumesPositive)
           ~> (pc = "returned")

\* diversified has returned after two rounds that each committed one lot for
\* a candidate and a third round that committed nothing with budget left
C12_Witness ==
    /\ pc = "returned" /\ opts.diversify /\ AllVolumesPositive
    /\ ~allocation_made /\ BudgetLeft
    /\ \E n \in 1..Len(viable_items) :
         /\ allocations[n] = 2
         /\ batch_purchases(viable_items[n], 0, opts.max_days_to_sell,
                            opts.batch_size_days) = 1
         /\ remaining_lp = lp - TotalLp(purchases, viable_items)
         /\ remaining_lp < lp

\* the greedy loop is about to visit candidate k, whose lots take up space
GreedyVisits ==
    /\ ~opts.diversify /\ pc = "greedy"
    /\ k <= Len(viable_items) /\ BudgetLeft
    /\ volume_per_purchase(viable_items[k].item) > 0

\* min(floor(remaining LP / lp-cost), floor(remaining cargo / volume-per-lot),
\* max(1, c)) for candidate n
GreedyLots(n) ==
    LET a == viable_items[n]
        by_lp == remaining_lp \div a.item.lp_cost
        by_cargo == remaining_cargo \div volume_per_purchase(a.item)
        c == LiquidityCap(a)
    IN  Min({by_lp, by_cargo, IF c >= 1 THEN c ELSE 1})

\* C13: the greedy strategy gives each candidate it visits exactly
\* min(floor(remaining LP / lp-cost), floor(remaining cargo / volume-per-lot),
\* max(1, c)) lots, c being floor(absorption * max-days-to-sell), or 1 for an
\* absorption of 0, and deducts their cost from the budgets; a candidate for
\* which this is 0 is skipped with both budgets unchanged, and the loop goes
\* on to the next candidate.
C13_GreedyQuantity ==
    [][GreedyVisits =>
         /\ pc' = "greedy" /\ k' = k + 1
         /\ IF GreedyLots(k) > 0
            THEN /\ purchases' = Append(purchases, <<k, GreedyLots(k)>>)
                 /\ remaining_lp' =
                      remaining_lp - GreedyLots(k) * viable_items[k].item.lp_cost
                 /\ remaining_cargo' =
                      remaining_cargo
                      - GreedyLots(k) * volume_per_purchase(viable_items[k].item)
            ELSE /\ purchases' = purchases
                 /\ remaining_lp' = remaining_lp
                 /\ remaining_cargo' = remaining_cargo
                 /\ k' <= Len(viable_items) => BudgetLeft'
    ]_vars

\* greedy has returned one pair, for the second candidate: the first one,
\* which the budgets do not pay for, was skipped with a quantity of 0
C13_Witness ==
    /\ pc = "returned" /\ ~opts.diversify /\ AllVolumesPositive
    /\ Len(viable_items) = 2
    /\ \/ lp < viable_items[1].item.lp_cost
       \/ cargo < volume_per_purchase(viable_items[1].item)
    /\ Len(purchases) = 1
    /\ purchases[1][1] = 2
    /\ remaining_lp = lp - purchases[1][2] * viable_items[2].item.lp_cost
    /\ remaining_cargo =
         cargo - purchases[1][2] * volume_per_purchase(viable_items[2].item)

\* the lots candidate n holds so far
Held(n) == IF opts.diversify THEN allocations[n] ELSE QuantityOf(n)

\* candidate n receives its first lots in this step
FirstAllocation(n) == Held(n) = 0 /\ Held(n)' > 0

\* the returned pairs name the candidates in score order, and they are the
\* candidates that hold lots
ReturnedInScoreOrder ==
    /\ \A j1, j2 \in 1..Len(purchases) :
         j1 < j2 => purchases[j1][1] < purchases[j2][1]
    /\ \A n \in 1..Len(viable_items) :
         Held(n) > 0 <=> \E j \in 1..Len(purchases) : purchases[j] = <<n, Held(n)>>

\* C14: both strategies return their pairs in the order in which the
\* candidates first received a nonzero allocation: whenever a candidate
\* receives its first lots, in whatever round, no candidate ranked after it
\* holds any lot yet, and the returned list is in score order.
C14_ReturnedInOrderOfFirstAllocation ==
    /\ [](pc = "returned" => ReturnedInScoreOrder)
    /\ [][\A n \in 1..Len(viable_items) :
             FirstAllocation(n) =>
                 \A m \in (n + 1)..Len(viable_items) : Held(m) = 0]_vars

\* diversified has returned two pairs; the first candidate got its second
\* lot in a later round than the one in which the second got its first
C14_Witness ==
    /\ pc = "returned" /\ opts.diversify /\ AllVolumesPositive
    /\ Len(viable_items) = 2
    /\ batch_purchases(viable_items[1], 0, opts.max_days_to_sell,
                       opts.batch_size_days) = 1
    /\ Len(purchases) = 2
    /\ purchases[1] = <<1, 2>>
    /\ purchases[2][1] = 2

\* C15: for every candidate list with units-per-lot > 0, lp-cost > 0 and
\* volume-per-lot >= 0, candidates of volume-per-lot 0 included, both
\* strategies complete and return a list: neither raises an error.
C15_ZeroVolumeCompletes == pc # "raised"

\* the liquidity cap of candidate n under the strategy in use: greedy
\* max(1, floor(absorption * max-days-to-sell)); diversified the floor, or 1
\* for an absorption of 0
StrategyCap(n) ==
    IF ~opts.diversify /\ LiquidityCap(viable_items[n]) < 1 THEN 1
    ELSE LiquidityCap(viable_items[n])

CapReached(n) == Held(n) >= StrategyCap(n)

LpShort(n) == remaining_lp < viable_items[n].item.lp_cost

CargoShort(n) == remaining_cargo < volume_per_purchase(viable_items[n].item)

\* C16 as stated: when either strategy returns, every candidate has reached
\* its liquidity cap, or the remaining LP is less than its lp-cost, or the
\* remaining cargo is less than its volume-per-lot.
C16_ResultMaximal ==
    pc = "returned" =>
        \A n \in 1..Len(viable_items) :
            CapReached(n) \/ LpShort(n) \/ CargoShort(n)

\* C16, amended: when either strategy returns, every candidate has reached
\* its liquidity cap, or the remaining LP is less than its lp-cost, or the
\* remaining cargo is less than its volume-per-lot, or no cargo is left at
\* all (which ends either strategy, also before a candidate whose
\* volume-per-lot is 0).
C16_ResultMaximalOrCargoUsedUp ==
    pc = "returned" =>
        \A n \in 1..Len(viable_items) :
            CapReached(n) \/ LpShort(n) \/ CargoShort(n) \/ remaining_cargo = 0

\* a strategy has returned with both budgets positive: one candidate stands
\* at its cap although the budgets pay for another lot of it, the other is
\* below its cap for want of LP or cargo
C16_Witness ==
    /\ pc = "returned" /\ AllVolumesPositive
    /\ remaining_lp > 0 /\ remaining_cargo > 0
    /\ Len(viable_items) = 2
    /\ \E n \in 1..2 :
         /\ StrategyCap(n) >= 1 /\ Held(n) = StrategyCap(n)
         /\ ~LpShort(n) /\ ~CargoShort(n)
    /\ \E n \in 1..2 :
         /\ Held(n) < StrategyCap(n)
         /\ LpShort(n) \/ CargoShort(n)

=============================================================================
